---- MODULE Spec2Model ----
(***************************************************************************)
(* logmerger/timestamp_wrapper.py: detection of a log file's timestamp     *)
(* format from a sample line, per-line parsing into (timestamp, residual), *)
(* and the synthesis of custom formats from a user template.               *)
(*                                                                         *)
(* Strings are TLA+ strings; the operators below read them one character   *)
(* at a time.  The library routines the source calls (re, datetime) are    *)
(* modelled by what they do on the subset of their input language that     *)
(* the source's patterns and formats use.                                  *)
(***************************************************************************)
EXTENDS Integers, Sequences, FiniteSets, TLC

(***************************************************************************)
(* Characters and strings                                                  *)
(***************************************************************************)

\* chr(27), the escape character "\x1b" of timestamp_wrapper.py:20.  It is
\* written as a printable character that no pattern, template or log line of
\* the model uses for anything else, and that is no digit, letter, space or
\* regular-expression metacharacter.
ESC == "~"

Chars(s) == [i \in 1..Len(s) |-> SubSeq(s, i, i)]

Digits == {"0", "1", "2", "3", "4", "5", "6", "7", "8", "9"}
LowerCase == "abcdefghijklmnopqrstuvwxyz"
UpperCase == "ABCDEFGHIJKLMNOPQRSTUVWXYZ"
Letters == {SubSeq(LowerCase, i, i) : i \in 1..26} \cup {SubSeq(UpperCase, i, i) : i \in 1..26}
\* \s of re (str patterns) and the characters str.rstrip() removes
WhiteSpace == {" ", "\t", "\n", "\r", "\f"}
WordChars == Letters \cup Digits \cup {"_"}

\* the characters lo..hi of the alphabet alpha
RangeIn(alpha, lo, hi) ==
  LET n == Len(alpha)
      P(c) == CHOOSE i \in 1..n : SubSeq(alpha, i, i) = c
  IN {SubSeq(alpha, i, i) : i \in P(lo)..P(hi)}


DigitVal(c) == CHOOSE d \in 0..9 : SubSeq("0123456789", d + 1, d + 1) = c

\* int(s) for a string of decimal digits
RECURSIVE ToInt(_)
ToInt(cs) == IF cs = <<>> THEN 0 ELSE 10 * ToInt(SubSeq(cs, 1, Len(cs) - 1)) + DigitVal(cs[Len(cs)])

\* str.find(sub): the first index (0-based) at which sub occurs, or -1
Find(s, sub) ==
  LET hits == {i \in 1..(Len(s) - Len(sub) + 1) : SubSeq(s, i, i + Len(sub) - 1) = sub}
  IN IF hits = {} THEN -1 ELSE (CHOOSE i \in hits : \A j \in hits : i <= j) - 1

\* sub in s
Contains(s, sub) == Find(s, sub) # -1

\* the characters of a class range lo-hi
ClassRange(lo, hi) ==
  IF lo \in Digits /\ hi \in Digits THEN RangeIn("0123456789", lo, hi)
  ELSE IF Contains(LowerCase, lo) /\ Contains(LowerCase, hi) THEN RangeIn(LowerCase, lo, hi)
  ELSE IF Contains(UpperCase, lo) /\ Contains(UpperCase, hi) THEN RangeIn(UpperCase, lo, hi)
  ELSE {lo, hi}

\* str.replace(old, new): every non-overlapping occurrence, left to right
RECURSIVE Replace(_, _, _)
Replace(s, old, new) ==
  LET k == Find(s, old)
  IN IF k = -1 THEN s
     ELSE SubSeq(s, 1, k) \o new \o Replace(SubSeq(s, k + Len(old) + 1, Len(s)), old, new)

\* str.rstrip()
RECURSIVE RStrip(_)
RStrip(s) ==
  IF Len(s) > 0 /\ SubSeq(s, Len(s), Len(s)) \in WhiteSpace
  THEN RStrip(SubSeq(s, 1, Len(s) - 1))
  ELSE s

(***************************************************************************)
(* re.compile: a pattern string becomes a tree.                            *)
(*   [t |-> "set", cs, neg]   one character in (not in) cs                 *)
(*   [t |-> "dot"]            any character but a newline                  *)
(*   [t |-> "grp", n, kid]    capture group number n                       *)
(*   [t |-> "cat", kids]      concatenation                                *)
(*   [t |-> "alt", kids]      alternation, leftmost branch first           *)
(*   [t |-> "rep", lo, hi, kid]  greedy repetition, hi = -1 unbounded      *)
(* With verbose (re.VERBOSE) white space outside a class and not escaped   *)
(* is dropped, and so is a "#" comment up to the end of its line.          *)
(***************************************************************************)

NoNode == [t |-> "cat", kids |-> <<>>]
Bad == [ok |-> FALSE, node |-> NoNode, i |-> 0, g |-> 0]
Good(node, i, g) == [ok |-> TRUE, node |-> node, i |-> i, g |-> g]

RECURSIVE SkipVerbose(_, _, _)
SkipVerbose(p, i, verbose) ==
  IF ~verbose \/ i > Len(p) THEN i
  ELSE IF p[i] \in WhiteSpace THEN SkipVerbose(p, i + 1, verbose)
  ELSE IF p[i] = "#"
       THEN LET ends == {j \in i..Len(p) : p[j] = "\n"}
            IN IF ends = {} THEN Len(p) + 1
               ELSE SkipVerbose(p, (CHOOSE j \in ends : \A k \in ends : j <= k) + 1, verbose)
  ELSE i

\* the character class named by an escape letter, {} if it names none
EscapeClass(c) ==
  IF c = "d" THEN Digits
  ELSE IF c = "s" THEN WhiteSpace
  ELSE IF c = "w" THEN WordChars
  ELSE {}

\* the items of a class [...] from position i (after "[" and "^") up to "]"
RECURSIVE ParseClass(_, _, _, _)
ParseClass(p, i, acc, first) ==
  IF i > Len(p) THEN [ok |-> FALSE, cs |-> {}, i |-> i]
  ELSE IF p[i] = "]" /\ ~first THEN [ok |-> TRUE, cs |-> acc, i |-> i + 1]
  ELSE IF p[i] = "\\"
       THEN IF i + 1 > Len(p) THEN [ok |-> FALSE, cs |-> {}, i |-> i]
            ELSE IF EscapeClass(p[i + 1]) # {}
                 THEN ParseClass(p, i + 2, acc \cup EscapeClass(p[i + 1]), FALSE)
            ELSE IF p[i + 1] \in Letters \cup Digits
                 THEN [ok |-> FALSE, cs |-> {}, i |-> i]
            ELSE ParseClass(p, i + 2, acc \cup {p[i + 1]}, FALSE)
  ELSE IF i + 2 <= Len(p) /\ p[i + 1] = "-" /\ p[i + 2] # "]"
       THEN ParseClass(p, i + 3, acc \cup ClassRange(p[i], p[i + 2]), FALSE)
  ELSE ParseClass(p, i + 1, acc \cup {p[i]}, FALSE)

\* the digits of p from i on
RECURSIVE DigitRun(_, _)
DigitRun(p, i) ==
  IF i <= Len(p) /\ p[i] \in Digits THEN <<p[i]>> \o DigitRun(p, i + 1) ELSE <<>>

\* a quantifier after the item `node`, if there is one
ParseQuant(p, i0, node, verbose) ==
  LET Rep(lo, hi, next) == [node |-> [t |-> "rep", lo |-> lo, hi |-> hi, kid |-> node], i |-> next]
      Braces(i, ds, j, es) ==
        IF ds # <<>> /\ j <= Len(p) /\ p[j] = "}" THEN Rep(ToInt(ds), ToInt(ds), j + 1)
        ELSE IF ds # <<>> /\ es # <<>> /\ j + 1 + Len(es) <= Len(p) /\ p[j + 1 + Len(es)] = "}"
             THEN Rep(ToInt(ds), ToInt(es), j + 2 + Len(es))
        ELSE [node |-> node, i |-> i]
      Counted(i, ds, j) ==
        Braces(i, ds, j, IF j <= Len(p) /\ p[j] = "," THEN DigitRun(p, j + 1) ELSE <<>>)
      Opened(i, ds) == Counted(i, ds, i + 1 + Len(ds))
      At(i) ==
        IF i > Len(p) THEN [node |-> node, i |-> i]
        ELSE IF p[i] = "?" THEN Rep(0, 1, i + 1)
        ELSE IF p[i] = "*" THEN Rep(0, -1, i + 1)
        ELSE IF p[i] = "+" THEN Rep(1, -1, i + 1)
        ELSE IF p[i] = "{" THEN Opened(i, DigitRun(p, i + 1))
        ELSE [node |-> node, i |-> i]
  IN At(SkipVerbose(p, i0, verbose))

RECURSIVE ParseAlt(_, _, _, _, _), ParseCat(_, _, _, _, _), ParseItem(_, _, _, _)

\* one item: a group, a class, an escape, "." or a literal character
ParseItem(p, i, g, verbose) ==
  LET Set(cs, neg, next) == Good([t |-> "set", cs |-> cs, neg |-> neg], next, g)
      \* the inside r of a group, capturing as number n or (n = 0) not capturing
      Closed(r, n) ==
        IF r.ok /\ r.i <= Len(p) /\ p[r.i] = ")"
        THEN Good(IF n = 0 THEN r.node ELSE [t |-> "grp", n |-> n, kid |-> r.node], r.i + 1, r.g)
        ELSE Bad
      Class(neg, r) == IF r.ok THEN Set(r.cs, neg, r.i) ELSE Bad
      Escape(c, named) ==
        IF named # {} THEN Set(named, FALSE, i + 2)
        ELSE IF c \in Letters \cup Digits THEN Bad
        ELSE Set({c}, FALSE, i + 2)
  IN IF p[i] = "("
     THEN IF i + 2 <= Len(p) /\ p[i + 1] = "?"
          THEN IF p[i + 2] # ":" THEN Bad
               ELSE Closed(ParseAlt(p, i + 3, g, verbose, <<>>), 0)
          ELSE Closed(ParseAlt(p, i + 1, g + 1, verbose, <<>>), g + 1)
     ELSE IF p[i] = "["
     THEN IF i + 1 <= Len(p) /\ p[i + 1] = "^"
          THEN Class(TRUE, ParseClass(p, i + 2, {}, TRUE))
          ELSE Class(FALSE, ParseClass(p, i + 1, {}, TRUE))
     ELSE IF p[i] = "\\"
     THEN IF i + 1 > Len(p) THEN Bad ELSE Escape(p[i + 1], EscapeClass(p[i + 1]))
     ELSE IF p[i] = "." THEN Good([t |-> "dot"], i + 1, g)
     ELSE IF p[i] \in {"*", "+", "?"} THEN Bad
     ELSE Set({p[i]}, FALSE, i + 1)

\* a sequence of quantified items, up to "|", ")" or the end
ParseCat(p, i0, g, verbose, acc) ==
  LET Quantified(a, q) == ParseCat(p, q.i, a.g, verbose, Append(acc, q.node))
      Item(a) == IF ~a.ok THEN Bad ELSE Quantified(a, ParseQuant(p, a.i, a.node, verbose))
      At(i) ==
        IF i > Len(p) \/ p[i] \in {"|", ")"}
        THEN Good([t |-> "cat", kids |-> acc], i, g)
        ELSE Item(ParseItem(p, i, g, verbose))
  IN At(SkipVerbose(p, i0, verbose))

\* branches separated by "|"
ParseAlt(p, i, g, verbose, acc) ==
  LET Branch(c) ==
        IF ~c.ok THEN Bad
        ELSE IF c.i <= Len(p) /\ p[c.i] = "|"
             THEN ParseAlt(p, c.i + 1, c.g, verbose, Append(acc, c.node))
        ELSE IF acc = <<>> THEN c
        ELSE Good([t |-> "alt", kids |-> Append(acc, c.node)], c.i, c.g)
  IN Branch(ParseCat(p, i, g, verbose, <<>>))

\* re.compile(pattern, flags): ok is FALSE where re.compile raises re.error
ReCompile(pattern, verbose) ==
  LET Parsed(r) ==
        IF r.ok /\ r.i = Len(pattern) + 1
        THEN [ok |-> TRUE, node |-> r.node, groups |-> r.g]
        ELSE [ok |-> FALSE, node |-> NoNode, groups |-> 0]
  IN Parsed(ParseAlt(Chars(pattern), 1, 0, verbose, <<>>))

(***************************************************************************)
(* Matching: every way a tree matches s from position i, in the order the  *)
(* backtracking matcher of re tries them; the first one is the match.      *)
(* A result is [i |-> the position after the match, caps |-> the groups'   *)
(* spans <<from, to>>, <<0, 0>> for a group that did not take part].       *)
(***************************************************************************)

NoSpan == <<0, 0>>

\* the concatenation of seqs[lo..hi]
RECURSIVE Flatten(_, _, _)
Flatten(seqs, lo, hi) ==
  IF lo > hi THEN <<>>
  ELSE IF lo = hi THEN seqs[lo]
  ELSE Flatten(seqs, lo, (lo + hi) \div 2) \o Flatten(seqs, (lo + hi) \div 2 + 1, hi)

\* whether the one-character item node accepts c
Accepts(node, c) == IF node.t = "dot" THEN c # "\n" ELSE (c \in node.cs) # node.neg

\* a repetition of a one-character item: the longest run first
MatchRun(node, s, i, caps) ==
  LET limit == IF node.hi = -1 \/ node.hi > Len(s) - i + 1 THEN Len(s) - i + 1 ELSE node.hi
      stop == {j \in 0..(limit - 1) : ~Accepts(node.kid, s[i + j])}
      n == IF stop = {} THEN limit ELSE CHOOSE j \in stop : \A k \in stop : j <= k
  IN IF n < node.lo THEN <<>>
     ELSE [j \in 1..(n - node.lo + 1) |-> [i |-> i + n - (j - 1), caps |-> caps]]

RECURSIVE MatchNode(_, _, _, _), MatchCat(_, _, _, _), MatchRep(_, _, _, _, _)

MatchNode(node, s, i, caps) ==
  IF node.t \in {"set", "dot"}
  THEN IF i <= Len(s) /\ Accepts(node, s[i]) THEN <<[i |-> i + 1, caps |-> caps]>> ELSE <<>>
  ELSE IF node.t = "grp"
  THEN LET Captured(rs) ==
             [k \in 1..Len(rs) |-> [i |-> rs[k].i,
                                    caps |-> [rs[k].caps EXCEPT ![node.n] = <<i, rs[k].i>>]]]
       IN Captured(MatchNode(node.kid, s, i, caps))
  ELSE IF node.t = "cat" THEN MatchCat(node.kids, 1, s, <<[i |-> i, caps |-> caps]>>)
  ELSE IF node.t = "alt"
  THEN Flatten([k \in 1..Len(node.kids) |-> MatchNode(node.kids[k], s, i, caps)],
               1, Len(node.kids))
  ELSE IF node.kid.t \in {"set", "dot"} THEN MatchRun(node, s, i, caps)
  ELSE MatchRep(node, 0, s, i, caps)

\* the items kids[k..] after each of the partial matches rs, in their order
MatchCat(kids, k, s, rs) ==
  IF k > Len(kids) \/ rs = <<>> THEN rs
  ELSE MatchCat(kids, k + 1, s,
                Flatten([j \in 1..Len(rs) |-> MatchNode(kids[k], s, rs[j].i, rs[j].caps)],
                        1, Len(rs)))

\* greedy: one more repetition is tried before stopping here; a repetition
\* that matches "" is not repeated
MatchRep(node, count, s, i, caps) ==
  LET More(rs) ==
        Flatten([j \in 1..Len(rs) |->
                   IF rs[j].i = i THEN <<rs[j]>>
                   ELSE MatchRep(node, count + 1, s, rs[j].i, rs[j].caps)],
                1, Len(rs))
  IN More(IF node.hi = -1 \/ count < node.hi THEN MatchNode(node.kid, s, i, caps) ELSE <<>>)
     \o (IF count >= node.lo THEN <<[i |-> i, caps |-> caps]>> ELSE <<>>)

\* Pattern.match(s) at position i of s: [ok, i, caps]
MatchAt(re, s, i) ==
  LET First(rs) ==
        IF rs = <<>> THEN [ok |-> FALSE, i |-> i, caps |-> <<>>]
        ELSE [ok |-> TRUE, i |-> rs[1].i, caps |-> rs[1].caps]
  IN First(MatchNode(re.node, s, i, [n \in 1..re.groups |-> NoSpan]))

\* Pattern.match(s): the match at the start of s
ReMatch(re, s) == MatchAt(re, Chars(s), 1)

\* Match[n]: the text of group n ("" stands for None too: the patterns here
\* are applied to it only where the group took part)
Group(s, m, n) == IF m.caps[n] = NoSpan THEN "" ELSE SubSeq(s, m.caps[n][1], m.caps[n][2] - 1)

\* a replacement template: "\1" .. "\9" stand for the groups' texts
RECURSIVE Expand(_, _, _)
Expand(repl, s, m) ==
  IF repl = "" THEN ""
  ELSE IF Len(repl) >= 2 /\ SubSeq(repl, 1, 1) = "\\" /\ SubSeq(repl, 2, 2) \in Digits
       THEN Group(s, m, DigitVal(SubSeq(repl, 2, 2))) \o Expand(SubSeq(repl, 3, Len(repl)), s, m)
  ELSE SubSeq(repl, 1, 1) \o Expand(SubSeq(repl, 2, Len(repl)), s, m)

\* Pattern.sub(repl, s, count): the matches are searched left to right and do
\* not overlap; count = 0 replaces them all, count = 1 only the leftmost
RECURSIVE SubFrom(_, _, _, _, _, _)
SubFrom(re, repl, s, cs, i, count) ==
  LET \* the match m found at j, the leftmost position from i on that has one
      Replaced(j, m) ==
        SubSeq(s, i, j - 1) \o Expand(repl, s, m)
        \o (IF count = 1 THEN SubSeq(s, m.i, Len(s))
            ELSE IF m.i = j
                 THEN IF j > Len(cs) THEN ""
                      ELSE SubSeq(s, j, j) \o SubFrom(re, repl, s, cs, j + 1, count)
            ELSE SubFrom(re, repl, s, cs, m.i, count))
      Leftmost(ms) ==
        IF \A j \in DOMAIN ms : ~ms[j].ok THEN SubSeq(s, i, Len(s))
        ELSE Replaced(CHOOSE j \in DOMAIN ms : ms[j].ok /\ \A k \in i..(j - 1) : ~ms[k].ok,
                      ms[CHOOSE j \in DOMAIN ms : ms[j].ok /\ \A k \in i..(j - 1) : ~ms[k].ok])
  IN Leftmost([j \in i..(Len(cs) + 1) |-> MatchAt(re, cs, j)])

\* sub without its count: every match is replaced
ReSubAll(re, repl, s, count) == SubFrom(re, repl, s, Chars(s), 1, 0)

ReSub(re, repl, s, count) == SubFrom(re, repl, s, Chars(s), 1, count)

(***************************************************************************)
(* datetime: a value is [year, month, day, hour, minute, second,           *)
(* microsecond, tzinfo]; tzinfo is <<>> for None (a naive value) and       *)
(* <<utcoffset in seconds>> for an aware one.  A routine that raises       *)
(* ValueError returns [ok |-> FALSE].                                      *)
(***************************************************************************)

NoTz == <<>>
DT(y, mo, d, h, mi, s, us, tz) ==
  [year |-> y, month |-> mo, day |-> d, hour |-> h, minute |-> mi, second |-> s,
   microsecond |-> us, tzinfo |-> tz]
NoDT == DT(0, 0, 0, 0, 0, 0, 0, NoTz)
Raise == [ok |-> FALSE, dt |-> NoDT]
Return(dt) == [ok |-> TRUE, dt |-> dt]

IsLeap(y) == (y % 4 = 0) /\ ((y % 100 # 0) \/ (y % 400 = 0))
DaysInMonth(y, m) ==
  IF m = 2 THEN (IF IsLeap(y) THEN 29 ELSE 28)
  ELSE IF m \in {4, 6, 9, 11} THEN 30 ELSE 31

\* the checks of the datetime constructor (and of timezone())
ValidDT(dt) ==
  /\ dt.year \in 1..9999 /\ dt.month \in 1..12 /\ dt.day \in 1..DaysInMonth(dt.year, dt.month)
  /\ dt.hour \in 0..23 /\ dt.minute \in 0..59 /\ dt.second \in 0..59
  /\ dt.microsecond \in 0..999999
  /\ (dt.tzinfo = NoTz \/ (dt.tzinfo[1] > -86400 /\ dt.tzinfo[1] < 86400))

NewDT(dt) == IF ValidDT(dt) THEN Return(dt) ELSE Raise

\* datetime.replace(year=y)
ReplaceYear(dt, y) == NewDT([dt EXCEPT !.year = y])

\* replace that leaves tzinfo as it is
ReplaceTzKeep(dt) == dt

\* datetime.replace(tzinfo=None)
ReplaceTzNone(dt) == [dt EXCEPT !.tzinfo = NoTz]

\* n digits of cs at position p: [ok, v, p]
ParseDigits(cs, p, n) ==
  IF n >= 1 /\ p + n - 1 <= Len(cs) /\ \A k \in p..(p + n - 1) : cs[k] \in Digits
  THEN [ok |-> TRUE, v |-> ToInt(SubSeq(cs, p, p + n - 1)), p |-> p + n]
  ELSE [ok |-> FALSE, v |-> 0, p |-> p]

\* the fraction of a second from position p of cs: at most six digits count
HmsFraction(cs, term, p, vals) ==
  LET remains == Len(cs) - p + 1
      n == IF remains >= 6 THEN 6 ELSE remains
      d == ParseDigits(cs, p, n)
      scale == <<100000, 10000, 1000, 100, 10, 1>>
      rest == DigitRun(cs, d.p)
      q == d.p + Len(rest)
  IN IF ~d.ok THEN [rv |-> -3, vals |-> vals, us |-> 0]
     ELSE [rv |-> IF q <= Len(cs) \/ term # "" THEN 1 ELSE 0,
           vals |-> vals, us |-> d.v * scale[n]]

\* parse_hh_mm_ss_ff of fromisoformat: HH[:MM[:SS[.fff]]] or HH[MM[SS[.fff]]]
\* in cs, term being the character that follows cs ("" at the end of the
\* string).  rv is 0 (all of cs was read and the string ends), 1 (something
\* follows) or negative (malformed).
RECURSIVE HmsLoop(_, _, _, _, _, _)
HmsLoop(cs, term, p, i, hasSep, vals) ==
  LET d == ParseDigits(cs, p, 2)
      c == IF p + 2 <= Len(cs) THEN cs[p + 2] ELSE IF p + 2 = Len(cs) + 1 THEN term ELSE ""
      hs == IF i = 1 THEN c = ":" ELSE hasSep
      vs == [vals EXCEPT ![i] = d.v]
  IN IF ~d.ok THEN [rv |-> -3, vals |-> vals, us |-> 0]
     ELSE IF p + 3 > Len(cs) THEN [rv |-> IF c # "" THEN 1 ELSE 0, vals |-> vs, us |-> 0]
     ELSE IF hs /\ c = ":"
          THEN IF i < 3 THEN HmsLoop(cs, term, p + 3, i + 1, hs, vs)
               ELSE HmsFraction(cs, term, p + 3, vs)
     ELSE IF c \in {".", ","} THEN HmsFraction(cs, term, p + 3, vs)
     ELSE IF ~hs
          THEN IF i < 3 THEN HmsLoop(cs, term, p + 2, i + 1, hs, vs)
               ELSE HmsFraction(cs, term, p + 2, vs)
     ELSE [rv |-> -4, vals |-> vals, us |-> 0]

ParseHms(cs, term) == HmsLoop(cs, term, 1, 1, TRUE, <<0, 0, 0>>)

\* datetime.fromisoformat (Python 3.11 and later, the branch of lines 12-15
\* this model takes) on the date forms YYYY-MM-DD and YYYYMMDD
FromIsoFormat(str) ==
  LET cs == Chars(str)
      n == Len(cs)
      sep == IF n >= 5 /\ cs[5] = "-" THEN 10 ELSE 8
      y == ParseDigits(cs, 1, 4)
      mo == ParseDigits(cs, IF sep = 10 THEN 6 ELSE 5, 2)
      d == ParseDigits(cs, IF sep = 10 THEN 9 ELSE 7, 2)
      dateOk == /\ n >= sep /\ y.ok /\ mo.ok /\ d.ok
                /\ (sep = 10 => cs[8] = "-")
      \* the character at sep + 1 separates date and time, whatever it is
      ts == SubSeq(cs, sep + 2, n)
      zs == {k \in 1..Len(ts) : ts[k] \in {"Z", "+", "-"}}
      z == IF zs = {} THEN Len(ts) + 1 ELSE CHOOSE k \in zs : \A j \in zs : k <= j
      sign == IF z <= Len(ts) /\ ts[z] = "-" THEN -1 ELSE 1
      \* the date ymd with the time t and the offset o
      WithTime(ymd, t, o) ==
        IF ~(/\ t.rv >= 0
             /\ (z > Len(ts) => t.rv = 0)
             /\ (z <= Len(ts) /\ ts[z] = "Z" => z = Len(ts))
             /\ (z <= Len(ts) /\ ts[z] # "Z" => o.rv = 0))
        THEN Raise
        ELSE NewDT(DT(ymd[1], ymd[2], ymd[3], t.vals[1], t.vals[2], t.vals[3], t.us,
                      IF z > Len(ts) THEN NoTz
                      ELSE IF ts[z] = "Z" THEN <<0>>
                      ELSE <<sign * (o.vals[1] * 3600 + o.vals[2] * 60 + o.vals[3])>>))
      WithDate(ymd) ==
        IF n = sep THEN NewDT(DT(ymd[1], ymd[2], ymd[3], 0, 0, 0, 0, NoTz))
        ELSE WithTime(ymd, ParseHms(SubSeq(ts, 1, z - 1), IF z <= Len(ts) THEN ts[z] ELSE ""),
                      ParseHms(SubSeq(ts, z + 1, Len(ts)), ""))
  IN IF n < 7 \/ ~dateOk THEN Raise ELSE WithDate(<<y.v, mo.v, d.v>>)

\* _strptime: the regular expression of one format directive (one capture
\* group each; month names match without regard to case)
DirectiveRegex(c) ==
  IF c = "d" THEN "(3[0-1]|[1-2]\\d|0[1-9]|[1-9]| [1-9])"
  ELSE IF c = "H" THEN "(2[0-3]|[0-1]\\d|\\d)"
  ELSE IF c = "M" THEN "([0-5]\\d|\\d)"
  ELSE IF c = "S" THEN "(6[0-1]|[0-5]\\d|\\d)"
  ELSE IF c = "Y" THEN "(\\d\\d\\d\\d)"
  ELSE IF c = "z" THEN "([+-]\\d\\d:?[0-5]\\d(?::?[0-5]\\d(?:\\.\\d{1,6})?)?|Z)"
  ELSE \* "b"
       "([Jj][Aa][Nn]|[Ff][Ee][Bb]|[Mm][Aa][Rr]|[Aa][Pp][Rr]|[Mm][Aa][Yy]|[Jj][Uu][Nn]"
       \o "|[Jj][Uu][Ll]|[Aa][Uu][Gg]|[Ss][Ee][Pp]|[Oo][Cc][Tt]|[Nn][Oo][Vv]|[Dd][Ee][Cc])"

\* the regular expression of a whole format: directives, white space as \s+,
\* any other character escaped
RECURSIVE FormatRegex(_)
FormatRegex(fmt) ==
  IF fmt = "" THEN ""
  ELSE IF SubSeq(fmt, 1, 1) = "%" /\ Len(fmt) >= 2
       THEN DirectiveRegex(SubSeq(fmt, 2, 2)) \o FormatRegex(SubSeq(fmt, 3, Len(fmt)))
  ELSE IF SubSeq(fmt, 1, 1) \in WhiteSpace
       THEN "\\s+" \o FormatRegex(SubSeq(fmt, 2, Len(fmt)))
  ELSE IF SubSeq(fmt, 1, 1) \in WordChars
       THEN SubSeq(fmt, 1, 1) \o FormatRegex(SubSeq(fmt, 2, Len(fmt)))
  ELSE "\\" \o SubSeq(fmt, 1, 1) \o FormatRegex(SubSeq(fmt, 2, Len(fmt)))

\* the directive letters of a format, in order: the k-th is group k
RECURSIVE Directives(_)
Directives(fmt) ==
  IF Len(fmt) < 2 THEN <<>>
  ELSE IF SubSeq(fmt, 1, 1) = "%" THEN <<SubSeq(fmt, 2, 2)>> \o Directives(SubSeq(fmt, 3, Len(fmt)))
  ELSE Directives(SubSeq(fmt, 2, Len(fmt)))

ToLower(c) ==
  IF Contains(UpperCase, c) THEN SubSeq(LowerCase, Find(UpperCase, c) + 1, Find(UpperCase, c) + 1)
  ELSE c

MonthNames == <<"jan", "feb", "mar", "apr", "may", "jun", "jul", "aug", "sep", "oct", "nov", "dec">>
MonthOf(name) ==
  CHOOSE m \in 1..12 :
    \A i \in 1..3 : SubSeq(MonthNames[m], i, i) = ToLower(SubSeq(name, i, i))

\* the UTC offset, in seconds, of a %z field: Z, +HHMM or +HH:MM
GmtOff(z) ==
  IF z = "Z" THEN 0
  ELSE LET ds == SelectSeq(Chars(SubSeq(z, 2, Len(z))), LAMBDA c : c \in Digits)
           secs == ToInt(SubSeq(ds, 1, 2)) * 3600 + ToInt(SubSeq(ds, 3, 4)) * 60
                   + (IF Len(ds) >= 6 THEN ToInt(SubSeq(ds, 5, 6)) ELSE 0)
       IN IF SubSeq(z, 1, 1) = "-" THEN 0 - secs ELSE secs

\* datetime.strptime(str, fmt): the whole of str must match; a field the
\* format does not name defaults to 1900-01-01 00:00:00
Strptime(str, fmt) ==
  LET \* the text of directive c's group in the match m, "" if fmt has no c
      Fields(m, ds) ==
        [c \in {"Y", "b", "d", "H", "M", "S", "z"} |->
           IF \E k \in 1..Len(ds) : ds[k] = c
           THEN Group(str, m, CHOOSE k \in 1..Len(ds) : ds[k] = c)
           ELSE ""]
      Num(f, default) ==
        IF f # "" THEN ToInt(SelectSeq(Chars(f), LAMBDA x : x \in Digits)) ELSE default
      Built(f) ==
        NewDT(DT(Num(f["Y"], 1900),
                 IF f["b"] # "" THEN MonthOf(f["b"]) ELSE 1,
                 Num(f["d"], 1), Num(f["H"], 0), Num(f["M"], 0), Num(f["S"], 0), 0,
                 IF f["z"] # "" THEN <<GmtOff(f["z"])>> ELSE NoTz))
      Matched(m) ==
        IF ~m.ok \/ m.i # Len(str) + 1 THEN Raise ELSE Built(Fields(m, Directives(fmt)))
  IN Matched(ReMatch(ReCompile(FormatRegex(fmt), FALSE), str))

\* The zone of the process: datetime.fromtimestamp and datetime.now give
\* local time, taken here to be UTC (as the tests freeze it).
LocalUtcOffset == 0

\* the civil date of a day number counted from 1970-01-01
CivilFromDays(days) ==
  LET z == days + 719468
      era == z \div 146097
      doe == z - era * 146097
      Yoe(e) == (e - e \div 1460 + e \div 36524 - e \div 146096) \div 365
      Doy(e, yoe) == e - (365 * yoe + yoe \div 4 - yoe \div 100)
      Mp(doy) == (5 * doy + 2) \div 153
      Date(yoe, doy, mp, m) ==
        <<yoe + era * 400 + (IF m <= 2 THEN 1 ELSE 0), m, doy - (153 * mp + 2) \div 5 + 1>>
      InMonth(yoe, doy, mp) == Date(yoe, doy, mp, IF mp < 10 THEN mp + 3 ELSE mp - 9)
      InYear(yoe, doy) == InMonth(yoe, doy, Mp(doy))
      InEra(yoe) == InYear(yoe, Doy(doe, yoe))
  IN InEra(Yoe(doe))

\* datetime.fromtimestamp(secs + us / 10^6), a naive local time
FromTimestamp(secs, us) ==
  LET t == secs + LocalUtcOffset
      r == t % 86400
      On(c) == DT(c[1], c[2], c[3], r \div 3600, (r % 3600) \div 60, r % 60, us, NoTz)
  IN On(CivilFromDays(t \div 86400))

\* float(s) for digits "." digits, as seconds and microseconds (the digits
\* after the sixth are dropped)
FloatSeconds(str) ==
  LET cs == Chars(str)
      dot == Find(str, ".") + 1
      frac == SubSeq(cs, dot + 1, Len(cs))
      six == SubSeq(frac \o <<"0", "0", "0", "0", "0", "0">>, 1, 6)
  IN <<ToInt(SubSeq(cs, 1, dot - 1)), ToInt(six)>>

(***************************************************************************)
(* The classes.  A class is a record of its attributes; base is the        *)
(* built-in (1..7, in definition order) whose __init__ and __call__ it     *)
(* has: itself for a built-in, its first base class for a custom one.      *)
(***************************************************************************)

\* strip_escape_sequences: every SGR sequence of s is replaced by ""
StripPattern == ESC \o "\\[\\d+(;\\d+)*m"
strip_escape_sequences(s) == ReSub(ReCompile(StripPattern, FALSE), "", s, 0)

ISOPattern ==
  "(  # Begin timestamp + message group\n" \o
  "        (      # Begin timestamp capture group\n" \o
  "        \\d{4}  # Year\n" \o
  "        -?     # Optional separator\n" \o
  "        \\d{2}  # Month\n" \o
  "        -?     # Optional separator\n" \o
  "        \\d{2}  # Day\n" \o
  "        [T\\s]? # Optional separator\n" \o
  "        \\d{2}  # Hour\n" \o
  "        :?     # Optional separator\n" \o
  "        \\d{2}  # Minute\n" \o
  "        :?     # Optional separator\n" \o
  "        \\d{2}  # Second\n" \o
  "        (?:[,.]\\d+)?  # Optionally, include sub-second precision and separator\n" \o
  "        (?:Z|[+-]\\d{2}:?(?:\\d{2})?)?  # Optionally, timezone offset\n" \o
  "        )      # End timestamp capture group\n" \o
  "    \\s) # End timestamp + message group"

\* the attributes of the base class TimestampedLineTransformer (lines 28-34)
BaseClass ==
  [name |-> "TimestampedLineTransformer", base |-> 0, pattern |-> "",
   timestamp_pattern |-> "", timestamp_match_group |-> 2, sub_repl |-> "",
   strptime_format |-> "", has_timezone |-> FALSE]

ISOFormat ==
  [BaseClass EXCEPT !.name = "ISOFormat", !.base = 1, !.pattern = ISOPattern,
                    !.strptime_format = "fromisoformat", !.has_timezone = TRUE]

BDHMSTimestamp == "[JFMASOND][a-z]{2}\\s(\\s|\\d)\\d\\s\\d{2}:\\d{2}:\\d{2}"
BDHMS ==
  [BaseClass EXCEPT !.name = "BDHMS", !.base = 2, !.timestamp_pattern = BDHMSTimestamp,
                    !.pattern = "((" \o BDHMSTimestamp \o ")\\s)",
                    !.strptime_format = "%b %d %H:%M:%S"]

PythonHttpTimestamp == "\\d{2}\\/\\w+\\/\\d{4}\\s\\d{2}:\\d{2}:\\d{2}"
PythonHttpServerLog ==
  [BaseClass EXCEPT !.name = "PythonHttpServerLog", !.base = 3,
                    !.timestamp_pattern = PythonHttpTimestamp,
                    !.pattern = "(.*)(-\\s\\[(" \o PythonHttpTimestamp \o ")\\]\\s)",
                    !.strptime_format = "%d/%b/%Y %H:%M:%S",
                    !.timestamp_match_group = 3, !.sub_repl = "\\1"]

AccessLogTimestamp == "\\d{2}\\/\\w+\\/\\d{4}:\\d{2}:\\d{2}:\\d{2}\\s[+-]\\d{4}"
HttpServerAccessLog ==
  [BaseClass EXCEPT !.name = "HttpServerAccessLog", !.base = 4,
                    !.timestamp_pattern = AccessLogTimestamp,
                    !.pattern = "(.*)(-\\s\\[(" \o AccessLogTimestamp \o ")\\]\\s)",
                    !.strptime_format = "%d/%b/%Y:%H:%M:%S %z",
                    !.timestamp_match_group = 3, !.sub_repl = "\\1"]

FloatSecondsSinceEpoch ==
  [BaseClass EXCEPT !.name = "FloatSecondsSinceEpoch", !.base = 5,
                    !.timestamp_pattern = "\\d{10}\\.\\d+",
                    !.pattern = "((" \o "\\d{10}\\.\\d+" \o ")\\s)"]

MilliSecondsSinceEpoch ==
  [BaseClass EXCEPT !.name = "MilliSecondsSinceEpoch", !.base = 6,
                    !.timestamp_pattern = "\\d{13}",
                    !.pattern = "((" \o "\\d{13}" \o ")\\s)"]

SecondsSinceEpoch ==
  [BaseClass EXCEPT !.name = "SecondsSinceEpoch", !.base = 7,
                    !.timestamp_pattern = "\\d{10}",
                    !.pattern = "((" \o "\\d{10}" \o ")\\s)"]

\* TimestampedLineTransformer.__subclasses__() once the module is loaded:
\* the built-ins in the order of their class statements
Builtins ==
  <<ISOFormat, BDHMS, PythonHttpServerLog, HttpServerAccessLog,
    FloatSecondsSinceEpoch, MilliSecondsSinceEpoch, SecondsSinceEpoch>>

\* __init_subclass__: cls.match is the compiled cls.pattern's match
ClassRegex(cls) == ReCompile(cls.pattern, TRUE)
ClassMatch(cls, s) == ReMatch(ClassRegex(cls), s)

AllDigits(s) == s # "" /\ \A k \in 1..Len(s) : SubSeq(s, k, k) \in Digits

\* self.str_to_time, as the __init__ of the class's built-in sets it
StrToTime(cls, s) ==
  LET \* strptime with the format string, and then as line 245 goes on
      Parsed(r) == IF cls.base = 4 /\ r.ok THEN Return(ReplaceTzNone(r.dt)) ELSE r
      \* float(s) or int(s), as <<seconds, microseconds>>; <<>> for ValueError
      Number(dot) ==
        IF cls.base = 5
        THEN IF dot > 0 /\ AllDigits(SubSeq(s, 1, dot)) /\ AllDigits(SubSeq(s, dot + 2, Len(s)))
             THEN FloatSeconds(s) ELSE <<>>
        ELSE IF cls.base = 6
        THEN IF AllDigits(s) /\ Len(s) > 3
             THEN <<ToInt(Chars(SubSeq(s, 1, Len(s) - 3))),
                    1000 * ToInt(Chars(SubSeq(s, Len(s) - 2, Len(s))))>>
             ELSE <<>>
        ELSE IF AllDigits(s) THEN <<ToInt(Chars(s)), 0>> ELSE <<>>
      Stamp(t) == IF t = <<>> THEN Raise ELSE Return(FromTimestamp(t[1], t[2]))
  IN IF cls.base = 1 THEN FromIsoFormat(s)
     ELSE IF cls.base \in {2, 3, 4} THEN Parsed(Strptime(s, cls.strptime_format))
     ELSE Stamp(Number(Find(s, ".")))

(***************************************************************************)
(* The outcome of a call: exc names the exception raised ("" for none),    *)
(* ts is <<>> for None and <<datetime>> otherwise.                         *)
(***************************************************************************)

None == <<>>
Raised(exc) == [exc |-> exc, ts |-> None, residual |-> ""]
Returned(ts, residual) == [exc |-> "", ts |-> ts, residual |-> residual]

\* __call__ without the space line 154 puts before an unmatched line
BaseCallBare(cls, obj) ==
  LET g == cls.timestamp_match_group
      \* line 151 with the value t of self.str_to_time, and lines 158-162
      Stamped(re, t) ==
        IF ~t.ok THEN Raised("ValueError")
        ELSE Returned(<<IF cls.has_timezone THEN ReplaceTzNone(t.dt) ELSE t.dt>>,
                      RStrip(strip_escape_sequences(RStrip(ReSub(re, cls.sub_repl, obj, 1)))))
      Matched(re, m) ==
        IF m.ok
        THEN IF g > re.groups THEN Raised("IndexError")
             ELSE IF m.caps[g] = NoSpan THEN Raised("TypeError")
             ELSE Stamped(re, StrToTime(cls, Group(obj, m, g)))
        ELSE Returned(None, RStrip(strip_escape_sequences(obj)))
      Compiled(re) == Matched(re, ReMatch(re, obj))
  IN Compiled(ClassRegex(cls))

\* TimestampedLineTransformer.__call__ (lines 146-162)
BaseCall(cls, obj) ==
  LET g == cls.timestamp_match_group
      \* line 151 with the value t of self.str_to_time, and lines 158-162
      Stamped(re, t) ==
        IF ~t.ok THEN Raised("ValueError")
        ELSE Returned(<<IF cls.has_timezone THEN ReplaceTzNone(t.dt) ELSE t.dt>>,
                      RStrip(strip_escape_sequences(RStrip(ReSub(re, cls.sub_repl, obj, 1)))))
      Matched(re, m) ==
        IF m.ok
        THEN IF g > re.groups THEN Raised("IndexError")
             ELSE IF m.caps[g] = NoSpan THEN Raised("TypeError")
             ELSE Stamped(re, StrToTime(cls, Group(obj, m, g)))
        ELSE Returned(None, RStrip(strip_escape_sequences(" " \o obj)))
      Compiled(re) == Matched(re, ReMatch(re, obj))
  IN Compiled(ClassRegex(cls))

(***************************************************************************)
(* make_custom_transformers (lines 66-126)                                 *)
(***************************************************************************)

\* the n-th value of iter(string.ascii_uppercase)
Suffix(n) == SubSeq(UpperCase, n, n)
SuffixCount == 26

\* "..." not in custom_timestamp[:custom_timestamp.find(")")]
HasInitialContent(custom_timestamp) ==
  ~Contains(SubSeq(custom_timestamp, 1, Find(custom_timestamp, ")")), "...")

\* type(f"Custom{subcls.__name__}_{name_suffix}", (subcls, TimestampedLineTransformer),
\*      class_properties): what class_properties does not set is inherited from subcls
CustomClass(custom_timestamp, subcls, name_suffix) ==
  [name |-> "Custom" \o subcls.name \o "_" \o name_suffix,
   base |-> subcls.base,
   pattern |-> Replace(custom_timestamp, "...", subcls.timestamp_pattern),
   timestamp_pattern |-> subcls.pattern,
   timestamp_match_group |-> IF HasInitialContent(custom_timestamp) THEN 3 ELSE 2,
   sub_repl |-> IF HasInitialContent(custom_timestamp) THEN "\\1" ELSE "",
   strptime_format |-> subcls.strptime_format,
   has_timezone |-> subcls.has_timezone]

InSeq(x, seq) == \E k \in 1..Len(seq) : seq[k] = x

\* the loop with each new class put before the registered ones
RECURSIVE CustomLoopPrepend(_, _, _, _)
CustomLoopPrepend(custom_timestamp, snapshot, k, st) ==
  IF k > Len(snapshot) THEN st
  ELSE IF InSeq(snapshot[k].name, st.custom_transformers)
       THEN CustomLoopPrepend(custom_timestamp, snapshot, k + 1, st)
  ELSE IF st.suffixes >= SuffixCount THEN [st EXCEPT !.exc = "StopIteration"]
  ELSE LET cls == CustomClass(custom_timestamp, snapshot[k], Suffix(st.suffixes + 1))
       IN CustomLoopPrepend(custom_timestamp, snapshot, k + 1,
                            [subclasses |-> <<cls>> \o st.subclasses,
                             custom_transformers |-> Append(st.custom_transformers, cls.name),
                             suffixes |-> st.suffixes + 1,
                             exc |-> ""])

\* the loop of lines 106-126 over snapshot = __subclasses__(), from its k-th
\* class on; st is [subclasses, custom_transformers, suffixes, exc]
RECURSIVE CustomLoop(_, _, _, _)
CustomLoop(custom_timestamp, snapshot, k, st) ==
  IF k > Len(snapshot) THEN st
  ELSE IF InSeq(snapshot[k].name, st.custom_transformers)
       THEN CustomLoop(custom_timestamp, snapshot, k + 1, st)
  ELSE IF st.suffixes >= SuffixCount THEN [st EXCEPT !.exc = "StopIteration"]
  ELSE LET cls == CustomClass(custom_timestamp, snapshot[k], Suffix(st.suffixes + 1))
       IN CustomLoop(custom_timestamp, snapshot, k + 1,
                     [subclasses |-> Append(st.subclasses, cls),
                      custom_transformers |-> Append(st.custom_transformers, cls.name),
                      suffixes |-> st.suffixes + 1,
                      exc |-> ""])

\* the compilation entered without the placeholder test
make_custom_transformers_unchecked(custom_timestamp, st) ==
  CustomLoop(custom_timestamp, st.subclasses, 1, [st EXCEPT !.exc = ""])

make_custom_transformers(custom_timestamp, st) ==
  IF ~Contains(custom_timestamp, "(...)") THEN [st EXCEPT !.exc = "ValueError"]
  ELSE CustomLoop(custom_timestamp, st.subclasses, 1, [st EXCEPT !.exc = ""])

(***************************************************************************)
(* The inputs of the model                                                 *)
(***************************************************************************)

\* each built-in's canonical example line (the comments of lines 199-268
\* and the test suite), in the order of Builtins
ExampleLines ==
  <<"2023-07-14 14:13:00 message",
    "Jul 14 08:00:02 host proc: msg",
    "::1 - - [14/Jul/2023 14:13:00] \"GET /log1.txt HTTP/1.1\" 200 -",
    "91.194.60.14 - - [14/Jul/2023:14:13:00 +0000] \"GET /a HTTP/1.1\" 200 1027",
    "1689343980.100 message",
    "1689343980100 message",
    "1689343980 message">>

\* one instant written with no zone and with the zone as Z, +00:00, +0000, +00
ZoneLines ==
  {"2023-07-14T14:13:00 message",
   "2023-07-14T14:13:00Z message",
   "2023-07-14T14:13:00+00:00 message",
   "2023-07-14T14:13:00+0000 message",
   "2023-07-14T14:13:00+00 message"}

Lines ==
  {ExampleLines[k] : k \in 1..7} \cup ZoneLines \cup
  {"2023-07-14 14:13:00,100-05:30 message",
   "2023-23-99 55:99:88 bad",
   "2023-07-14 14:13:00 retry of 2023-07-14 14:13:00 failed",
   "2023-07-14 14:13:00 " \o ESC \o "[1mbold" \o ESC \o "[0m",
   "Feb 29 08:00:02 host proc: msg",
   "INFO - 2023-07-14 14:13:00 message",
   "INFO - Jul 14 08:00:02 message",
   "    at foo.bar(Baz.java:1)  ",
   ESC \o "[31mERROR" \o ESC \o "[0m in red",
   ""}

\* templates with the "(...)" placeholder, each giving patterns re compiles
PlaceholderTemplates ==
  {"(\\w+ - )((...) )",        \* the docstring's first example (line 95)
   "(\\w+\\s-\\s)((...)\\s)",  \* the same with the white space written as \s
   "(...)"}                    \* the bare placeholder
\* a template without the placeholder
Templates == PlaceholderTemplates \cup {"((\\d+)\\s)"}

\* files: the first line and st_ctime (2023-07-14 08:00:02, 2024-02-29
\* 08:00:02 and the epoch itself, in seconds)
Files ==
  {[first_line |-> "Jul 14 08:00:02 host proc: msg", st_ctime |-> 1689321602],
   [first_line |-> "Feb 29 08:00:02 host proc: msg", st_ctime |-> 1709193602],
   [first_line |-> "Jul 14 08:00:02 host proc: msg", st_ctime |-> 0]}

\* datetime.now().year at the time of a call
NowYears == {2026, 2028}

\* how many make_custom_transformers calls with a placeholder a run makes
MaxCompiles == 4
\* transformers are made and called after at most this many of them
MaxCompilesParsed == 1

(***************************************************************************)
(* The values of ClassMatch and BaseCall on the model's inputs, computed   *)
(* once.  A class's name plays no part in either.                          *)
(***************************************************************************)

Kind(cls) == [cls EXCEPT !.name = "", !.timestamp_pattern = ""]
ClassKinds ==
  {Kind(Builtins[k]) : k \in 1..7}
  \cup {Kind(CustomClass(t, Builtins[k], "")) : t \in PlaceholderTemplates, k \in 1..7}
MatchTable == [c \in ClassKinds |-> [l \in Lines |-> ClassMatch(c, l).ok]]
BaseCallTable == [c \in ClassKinds |-> [l \in Lines |-> BaseCall(c, l)]]

\* subcls.match(s), read from the table
Matches(cls, s) == MatchTable[Kind(cls)][s]
\* BDHMS.__call__ (lines 208-218): file_stat is <<>> for None, else <<st_ctime>>
BDHMSCall(cls, file_stat, now, obj) ==
  LET date_year == IF file_stat # None /\ file_stat[1] # 0
                   THEN FromTimestamp(file_stat[1], 0).year
                   ELSE now
      Replaced(dt, obj1) == IF ~dt.ok THEN Raised("ValueError") ELSE Returned(<<dt.dt>>, obj1)
      Super(r) ==
        IF r.exc # "" \/ r.ts = None THEN r
        ELSE Replaced(ReplaceYear(r.ts[1], date_year), r.residual)
  IN Super(BaseCallTable[Kind(cls)][obj])

\* xformer(obj) for an instance of cls: BDHMS and the classes made from it
\* have BDHMS.__call__, the others the base class's
Call(cls, file_stat, now, obj) ==
  IF cls.base = 2 THEN BDHMSCall(cls, file_stat, now, obj) ELSE BaseCallTable[Kind(cls)][obj]

\* the search taking the last class that accepts s
DetectLast(classes, s) ==
  IF \E k \in 1..Len(classes) : Matches(classes[k], s)
  THEN CHOOSE k \in 1..Len(classes) :
         Matches(classes[k], s) /\ \A j \in (k + 1)..Len(classes) : ~Matches(classes[j], s)
  ELSE 0

\* make_transformer_from_sample_line (lines 58-63): the index in classes of
\* the first class whose match accepts s; 0 if there is none
Detect(classes, s) ==
  IF \E k \in 1..Len(classes) : Matches(classes[k], s)
  THEN CHOOSE k \in 1..Len(classes) :
         Matches(classes[k], s) /\ \A j \in 1..(k - 1) : ~Matches(classes[j], s)
  ELSE 0

(***************************************************************************)
(* The state: the class registry, the factory's class attributes, the      *)
(* transformer the caller holds, and the outcome of the last operation.    *)
(***************************************************************************)

VARIABLES
  subclasses,                   \* TimestampedLineTransformer.__subclasses__()
  custom_transformers,          \* the names of the classes in custom_transformers
  custom_transformer_suffixes,  \* how many letters the iterator has given out
  xformer,                      \* <<>> or <<[cls, file_stat]>>
  ret,                          \* the last operation, its argument and outcome
  ncompiles                     \* make_custom_transformers calls that passed line 101

vars == <<subclasses, custom_transformers, custom_transformer_suffixes, xformer, ret, ncompiles>>

Outcome(op, arg, now, r) ==
  [op |-> op, arg |-> arg, now |-> now, exc |-> r.exc, ts |-> r.ts, residual |-> r.residual]

Init ==
  /\ subclasses = Builtins
  /\ custom_transformers = <<>>
  /\ custom_transformer_suffixes = 0
  /\ xformer = None
  /\ ret = Outcome("import", "", 0, Returned(None, ""))
  /\ ncompiles = 0

\* TimestampedLineTransformer.make_custom_transformers(custom_timestamp)
MakeCustomTransformers(custom_timestamp) ==
  LET st == make_custom_transformers(custom_timestamp,
              [subclasses |-> subclasses, custom_transformers |-> custom_transformers,
               suffixes |-> custom_transformer_suffixes, exc |-> ""])
  IN /\ ncompiles < MaxCompiles
     /\ subclasses' = st.subclasses
     /\ custom_transformers' = st.custom_transformers
     /\ custom_transformer_suffixes' = st.suffixes
     /\ ncompiles' = IF Contains(custom_timestamp, "(...)") THEN ncompiles + 1 ELSE ncompiles
     /\ ret' = Outcome("make_custom_transformers", custom_timestamp, 0,
                       [exc |-> st.exc, ts |-> None, residual |-> ""])
     /\ UNCHANGED xformer

\* xformer = TimestampedLineTransformer.make_transformer_from_sample_line(s)
MakeTransformerFromSampleLine(s) ==
  LET k == Detect(subclasses, s)
  IN /\ ncompiles <= MaxCompilesParsed
     /\ IF k = 0
        THEN /\ ret' = Outcome("make_transformer_from_sample_line", s, 0, Raised("ValueError"))
             /\ UNCHANGED xformer
        ELSE /\ ret' = Outcome("make_transformer_from_sample_line", s, 0, Returned(None, ""))
             /\ xformer' = <<[cls |-> subclasses[k], file_stat |-> None]>>
     /\ UNCHANGED <<subclasses, custom_transformers, custom_transformer_suffixes, ncompiles>>

\* xformer = TimestampedLineTransformer.make_transformer_from_file(file_ref)
MakeTransformerFromFile(file_ref) ==
  LET first_line == file_ref.first_line
      k == Detect(subclasses, first_line)
  IN /\ ncompiles <= MaxCompilesParsed
     /\ IF k = 0
        THEN /\ ret' = Outcome("make_transformer_from_file", first_line, 0, Raised("ValueError"))
             /\ UNCHANGED xformer
        ELSE /\ ret' = Outcome("make_transformer_from_file", first_line, 0, Returned(None, ""))
             /\ xformer' = <<[cls |-> subclasses[k], file_stat |-> <<file_ref.st_ctime>>]>>
     /\ UNCHANGED <<subclasses, custom_transformers, custom_transformer_suffixes, ncompiles>>

\* xformer(obj), called when datetime.now().year is now
CallTransformer(obj, now) ==
  /\ xformer # None
  /\ ncompiles <= MaxCompilesParsed
  /\ ret' = Outcome("call", obj, now, Call(xformer[1].cls, xformer[1].file_stat, now, obj))
  /\ UNCHANGED <<subclasses, custom_transformers, custom_transformer_suffixes, xformer, ncompiles>>

Next ==
  \/ \E custom_timestamp \in Templates : MakeCustomTransformers(custom_timestamp)
  \/ \E s \in Lines : MakeTransformerFromSampleLine(s)
  \/ \E file_ref \in Files : MakeTransformerFromFile(file_ref)
  \/ \E obj \in Lines, now \in NowYears : CallTransformer(obj, now)

Spec == Init /\ [][Next]_vars

(***************************************************************************)
(* The ANSI stripper on its own: a text put together from pieces of SGR    *)
(* sequences, stripped again and again.                                    *)
(***************************************************************************)

Pieces == {ESC \o "[", ESC \o "[0m", "0m", "1;", "a"}
MaxPieces == 3

RECURSIVE Joined(_)
Joined(n) ==
  IF n = 0 THEN {""}
  ELSE LET shorter == Joined(n - 1)
       IN shorter \cup {s \o p : s \in shorter, p \in Pieces}

InitStrip ==
  /\ subclasses = Builtins
  /\ custom_transformers = <<>>
  /\ custom_transformer_suffixes = 0
  /\ xformer = None
  /\ ret \in {Outcome("text", s, 0, Returned(None, s)) : s \in Joined(MaxPieces)}
  /\ ncompiles = 0

\* strip_escape_sequences applied to the text the last step left
StripEscapeSequences ==
  /\ ret' = Outcome("strip_escape_sequences", ret.residual, 0,
                    Returned(None, strip_escape_sequences(ret.residual)))
  /\ UNCHANGED <<subclasses, custom_transformers, custom_transformer_suffixes, xformer, ncompiles>>

NextStrip == StripEscapeSequences

SpecStrip == InitStrip /\ [][NextStrip]_vars

(***************************************************************************)
(* What the properties below read off a state                              *)
(***************************************************************************)

IsDetect == ret.op \in {"make_transformer_from_sample_line", "make_transformer_from_file"}
IsCall == ret.op = "call"

\* m = self._re_pattern_match(obj) (line 147) for an instance of cls: whether
\* the timestamp group took part in the match, its text (raw), and the line
\* with the matched span replaced by group 1 where sub_repl names it, with
\* the escape sequences and the trailing white space taken off (kept)
MatchInfo(cls, obj) ==
  LET re == ClassRegex(cls)
      m == ReMatch(re, obj)
      g == cls.timestamp_match_group
      lead == IF cls.sub_repl = "" THEN "" ELSE Group(obj, m, 1)
  IN IF m.ok /\ g <= re.groups
     THEN [ok |-> m.caps[g] # NoSpan, raw |-> Group(obj, m, g),
           kept |-> RStrip(strip_escape_sequences(RStrip(lead \o SubSeq(obj, m.i, Len(obj)))))]
     ELSE [ok |-> FALSE, raw |-> "", kept |-> ""]
MatchInfoTable == [c \in ClassKinds |-> [l \in Lines |-> MatchInfo(c, l)]]
Info == MatchInfoTable[Kind(xformer[1].cls)][ret.arg]

\* f" {obj}" (line 154) after lines 158-162
UnmatchedTable == [l \in Lines |-> RStrip(strip_escape_sequences(" " \o l))]

\* the names of the built-ins in the order of their class statements
BuiltinOrder ==
  <<"ISOFormat", "BDHMS", "PythonHttpServerLog", "HttpServerAccessLog",
    "FloatSecondsSinceEpoch", "MilliSecondsSinceEpoch", "SecondsSinceEpoch">>

(***************************************************************************)
(* C1, C2: detection                                                       *)
(***************************************************************************)

\* C1: the registry holds the seven built-ins in their fixed order and then
\* the synthesized classes in the order they were appended; a detection
\* returns the first registered class whose pattern matches the start of the
\* sample line, so a line a built-in matches is never bound to a synthesized
\* class; and it raises ValueError exactly when no registered class matches.
C1_DetectFirstRegistered ==
  /\ Len(subclasses) = 7 + Len(custom_transformers)
  /\ \A k \in 1..7 : subclasses[k].name = BuiltinOrder[k]
  /\ \A k \in 8..Len(subclasses) : subclasses[k].name = custom_transformers[k - 7]
  /\ IsDetect =>
       IF ret.exc = ""
       THEN \E k \in 1..Len(subclasses) :
              /\ xformer[1].cls = subclasses[k]
              /\ Matches(subclasses[k], ret.arg)
              /\ \A j \in 1..(k - 1) : ~Matches(subclasses[j], ret.arg)
              /\ (\E b \in 1..7 : Matches(subclasses[b], ret.arg)) => k <= 7
       ELSE /\ ret.exc = "ValueError"
            /\ \A k \in 1..Len(subclasses) : ~Matches(subclasses[k], ret.arg)

\* a detection, after a make_custom_transformers call, that binds a synthesized class
C1_Witness ==
  /\ IsDetect /\ ret.exc = "" /\ ncompiles >= 1
  /\ \E k \in 8..Len(subclasses) : xformer[1].cls = subclasses[k]
  /\ \A b \in 1..7 : ~Matches(subclasses[b], ret.arg)

\* C2: a detection on a built-in's own example line returns that built-in,
\* whatever else is registered.
C2_ExampleBindsOwnVariant ==
  \A k \in 1..7 :
    (IsDetect /\ ret.arg = ExampleLines[k]) =>
      /\ ret.exc = ""
      /\ xformer[1].cls = Builtins[k]
      /\ xformer[1].cls.name = BuiltinOrder[k]

\* the 13-digit epoch line detected while synthesized classes are registered
C2_Witness ==
  /\ IsDetect /\ ncompiles >= 1 /\ ret.arg = ExampleLines[6]
  /\ xformer[1].cls.name = "MilliSecondsSinceEpoch"

(***************************************************************************)
(* C3, C4: the residual                                                    *)
(***************************************************************************)

\* C3 as the specification states it: a call that returns a timestamp returns
\* a residual in which the extracted timestamp text occurs nowhere.
C3_ResidualNeverHoldsTimestamp ==
  (IsCall /\ ret.exc = "" /\ ret.ts # None) => ~Contains(ret.residual, Info.raw)

\* C3, amended: a call that returns a timestamp returns the line with the one
\* matched leading span replaced by the leading context, without escape
\* sequences and trailing white space; text after the span is kept as it is,
\* a second occurrence of the timestamp's text included.
C3_LeadingSpanRemoved ==
  (IsCall /\ ret.exc = "" /\ ret.ts # None) => (Info.ok /\ ret.residual = Info.kept)

\* a parsed line whose message repeats the timestamp's text
C3_Witness ==
  /\ IsCall /\ ret.exc = "" /\ ret.ts # None
  /\ Info.raw # "" /\ Contains(ret.residual, Info.raw)

\* C4 as the specification states it: a call on a line the pattern does not
\* match returns None and one space followed by the line unmodified.
C4_UnmatchedLineUnmodified ==
  (IsCall /\ ~Matches(xformer[1].cls, ret.arg)) =>
    (ret.exc = "" /\ ret.ts = None /\ ret.residual = " " \o ret.arg)

\* C4, amended: a call on a line the pattern does not match returns None and
\* one space followed by the line, with the escape sequences removed and the
\* trailing white space trimmed.
C4_UnmatchedLineCleaned ==
  (IsCall /\ ~Matches(xformer[1].cls, ret.arg)) =>
    (ret.exc = "" /\ ret.ts = None /\ ret.residual = UnmatchedTable[ret.arg])

\* an unmatched line that ends in white space
C4_Witness ==
  /\ IsCall /\ ~Matches(xformer[1].cls, ret.arg)
  /\ ret.arg = "    at foo.bar(Baz.java:1)  "
  /\ ret.residual = "     at foo.bar(Baz.java:1)"

(***************************************************************************)
(* C5: the ANSI stripper                                                   *)
(***************************************************************************)

\* C5: stripping what strip_escape_sequences returned changes nothing (its
\* output holds no SGR sequence).
C5_StripIdempotent ==
  ret.op = "strip_escape_sequences" => strip_escape_sequences(ret.residual) = ret.residual

(***************************************************************************)
(* C6, C7, C8: make_custom_transformers                                    *)
(***************************************************************************)

DocTemplate == "(\\w+ - )((...) )"
DocLine == "INFO - 2023-07-14 14:13:00 message"

\* the registry after make_custom_transformers(DocTemplate) on the built-ins alone
AfterDocTemplate ==
  /\ ncompiles = 1
  /\ Len(subclasses) = 14
  /\ \A k \in 1..7 : subclasses[7 + k] = CustomClass(DocTemplate, Builtins[k], Suffix(k))

\* C6: after make_custom_transformers with the docstring's template on the
\* built-ins alone, a detection on "INFO - 2023-07-14 14:13:00 message" binds
\* the class synthesized from ISOFormat, and a call with that line returns
\* 2023-07-14 14:13:00 and "INFO - message".
C6_DocTemplateRoundTrip ==
  /\ (AfterDocTemplate /\ IsDetect /\ ret.arg = DocLine) =>
       (ret.exc = "" /\ xformer[1].cls.name = "CustomISOFormat_A")
  /\ (AfterDocTemplate /\ IsCall /\ ret.arg = DocLine
        /\ xformer[1].cls.name = "CustomISOFormat_A") =>
       (ret.exc = "" /\ ret.ts = <<DT(2023, 7, 14, 14, 13, 0, 0, NoTz)>>
                     /\ ret.residual = "INFO - message")

\* C7: a make_custom_transformers call with a template that has the
\* placeholder completes, and after k of them the registry holds 7 + 7k
\* classes with pairwise distinct names.
C7_SevenNewVariantsPerCompile ==
  (ret.op = "make_custom_transformers" /\ Contains(ret.arg, "(...)")) =>
    /\ ret.exc = ""
    /\ Len(subclasses) = 7 + 7 * ncompiles
    /\ \A i, j \in 1..Len(subclasses) : subclasses[i].name = subclasses[j].name => i = j

\* C8: a call on a line the bound class's pattern matches never fails for a
\* capture group the pattern does not have.
C8_GroupsCheckedAtCompile ==
  (IsCall /\ Matches(xformer[1].cls, ret.arg)) => ret.exc # "IndexError"

(***************************************************************************)
(* C9, C10: the timestamp                                                  *)
(***************************************************************************)

\* C9: every timestamp a call returns is naive, and the lines that write one
\* instant with no zone, Z, +00:00, +0000 and +00 all give the same value.
C9_TimestampsNaive ==
  (IsCall /\ ret.ts # None) =>
    /\ ret.ts[1].tzinfo = NoTz
    /\ ret.arg \in ZoneLines => ret.ts[1] = DT(2023, 7, 14, 14, 13, 0, 0, NoTz)

\* the line with +00:00 parsed
C9_Witness ==
  /\ IsCall /\ ret.arg = "2023-07-14T14:13:00+00:00 message"
  /\ ret.ts = <<DT(2023, 7, 14, 14, 13, 0, 0, NoTz)>>

\* the year C10 infers: the file's creation year when file metadata is bound,
\* else the year of the call
InferredYear ==
  IF xformer[1].file_stat # None THEN FromTimestamp(xformer[1].file_stat[1], 0).year
  ELSE ret.now

\* the fields of a "Mon dd HH:MM:SS" text, in the inferred year
SyslogFields(raw) ==
  DT(InferredYear, MonthOf(SubSeq(raw, 1, 3)),
     ToInt(Chars(IF SubSeq(raw, 5, 5) = " " THEN SubSeq(raw, 6, 6) ELSE SubSeq(raw, 5, 6))),
     ToInt(Chars(SubSeq(raw, 8, 9))), ToInt(Chars(SubSeq(raw, 11, 12))),
     ToInt(Chars(SubSeq(raw, 14, 15))), 0, NoTz)

\* C10: a BDHMS transformer called on a line it matches, whose month, day and
\* time are valid in the inferred year, returns those with the inferred year.
C10_SyslogYearInferred ==
  (IsCall /\ xformer[1].cls.base = 2 /\ Info.ok /\ ValidDT(SyslogFields(Info.raw))) =>
    (ret.exc = "" /\ ret.ts = <<SyslogFields(Info.raw)>>)

(***************************************************************************)
(* C11: a template without the placeholder                                 *)
(***************************************************************************)

\* C11: a make_custom_transformers call whose template has no "(...)" fails
\* with ValueError (the InvalidTemplate failure) and leaves the registry, the
\* list of custom classes, the suffix iterator and the transformer in hand as
\* they were, so every line is detected after the call as it was before it.
C11_InvalidTemplateLeavesRegistry ==
  [][(ret'.op = "make_custom_transformers" /\ ~Contains(ret'.arg, "(...)")) =>
       /\ ret'.exc = "ValueError"
       /\ subclasses' = subclasses
       /\ custom_transformers' = custom_transformers
       /\ custom_transformer_suffixes' = custom_transformer_suffixes
       /\ xformer' = xformer
       /\ \A s \in Lines : Detect(subclasses', s) = Detect(subclasses, s)]_vars

\* a failed call made after custom classes were registered and a transformer
\* was bound
C11_Witness ==
  /\ ret.op = "make_custom_transformers"
  /\ ~Contains(ret.arg, "(...)")
  /\ ret.exc = "ValueError"
  /\ custom_transformers # <<>>
  /\ custom_transformer_suffixes = Len(custom_transformers)
  /\ xformer # None

====
